---- MODULE Spec2Model ----
(***************************************************************************)
(* Model of pagerank.py: transition_model, sample_pagerank and             *)
(* iterate_pagerank over corpora as produced by crawl (every link target   *)
(* is a key, no page links to itself).                                     *)
(*                                                                         *)
(* Numbers are exact rationals <<numerator, denominator>> in lowest terms  *)
(* with a positive denominator; Python's `/` raising ZeroDivisionError is  *)
(* modelled by the actions that divide.  One run of the model is one call  *)
(* of one of the three functions; `call` names it and `pc` is the position *)
(* inside the function body.                                               *)
(***************************************************************************)
EXTENDS Integers, FiniteSets, Sequences, TLC

VARIABLES call, corpus, damping_factor, page, n, pc, error, result,
          visit_counts, random_page, i,
          page_ranks, new_page_ranks, difference, todo, rounds

vars == <<call, corpus, damping_factor, page, n, pc, error, result,
          visit_counts, random_page, i,
          page_ranks, new_page_ranks, difference, todo, rounds>>

(* ------------------------------ bounds --------------------------------- *)

\* largest sampling budget n passed to sample_pagerank
MaxSamples == 4

\* cap on the number of rounds of the `while True` loop of iterate_pagerank
MaxRounds == 12

\* universe of page names; a corpus uses any subset of it as its keys
Pages == {"A", "B", "C"}

\* damping factors tried with transition_model and sample_pagerank
DampingFactors == {<<1, 4>>, <<1, 2>>, <<17, 20>>}

\* damping factors tried with iterate_pagerank (exact iteration with 17/20
\* needs about 45 rounds and denominators beyond TLC's integers)
IterDampingFactors == {<<1, 4>>, <<1, 2>>}

\* sampling budgets tried, including the malformed ones n < 1
SampleBudgets == -1 .. MaxSamples

(* ------------------------- exact arithmetic ---------------------------- *)

\* Operators bind each operand once (through a singleton set) so that an
\* operand expression is evaluated a single time however deep the nesting.
Only(S) == CHOOSE v \in S : TRUE

Abs(a) == IF a < 0 THEN 0 - a ELSE a

RECURSIVE GCD(_, _)
GCD(a, b) == IF b = 0 THEN Abs(a) ELSE GCD(b, a % Abs(b))

\* the rational a/b in lowest terms, b # 0
Rat(a, b) ==
    Only({ <<((IF bv < 0 THEN 0 - 1 ELSE 1) * av) \div g,
             ((IF bv < 0 THEN 0 - 1 ELSE 1) * bv) \div g>> :
           <<av, bv, g>> \in { <<u, v, GCD(u, v)>> : <<u, v>> \in {<<a, b>>} } })

Zero == <<0, 1>>
One == <<1, 1>>

RAdd(x, y) ==
    Only({ Rat(xv[1] * (yv[2] \div g) + yv[1] * (xv[2] \div g),
               (xv[2] \div g) * yv[2]) :
           <<xv, yv, g>> \in { <<u, v, GCD(u[2], v[2])>> : <<u, v>> \in {<<x, y>>} } })

RNeg(x) == Only({ <<0 - xv[1], xv[2]>> : xv \in {x} })

RSub(x, y) == RAdd(x, RNeg(y))

RMul(x, y) ==
    Only({ Rat((xv[1] \div g1) * (yv[1] \div g2),
               (xv[2] \div g2) * (yv[2] \div g1)) :
           <<xv, yv, g1, g2>> \in
               { <<u, v, GCD(u[1], v[2]), GCD(v[1], u[2])>> :
                     <<u, v>> \in {<<x, y>>} } })

\* x / y for y # 0
RDiv(x, y) == RMul(x, Only({ Rat(yv[2], yv[1]) : yv \in {y} }))

RAbs(x) == Only({ <<Abs(xv[1]), xv[2]>> : xv \in {x} })

RLe(x, y) ==
    Only({ xv[1] * (yv[2] \div g) <= yv[1] * (xv[2] \div g) :
           <<xv, yv, g>> \in { <<u, v, GCD(u[2], v[2])>> : <<u, v>> \in {<<x, y>>} } })

RGt(x, y) == ~RLe(x, y)

\* sum(f[k] for k in S)
RECURSIVE RSum(_, _)
RSum(f, S) ==
    IF S = {} THEN Zero
    ELSE LET k == CHOOSE k \in S : TRUE
         IN  RAdd(f[k], RSum(f, S \ {k}))

RECURSIVE ISum(_, _)
ISum(f, S) ==
    IF S = {} THEN 0
    ELSE LET k == CHOOSE k \in S : TRUE
         IN  f[k] + ISum(f, S \ {k})

(* ------------------------------ corpora -------------------------------- *)

\* what crawl returns: links only to other pages of the corpus
Corpora ==
    UNION { {c \in [K -> SUBSET K] : \A k \in K : k \notin c[k]} : K \in SUBSET Pages }

Keys == DOMAIN corpus

(* --------------------------- transition_model -------------------------- *)

transition_model_flat(corpus_, page_, d) ==
    LET links == corpus_[page_]
        N == Cardinality(DOMAIN corpus_)
        num_links == Cardinality(links)
    IN  [key \in DOMAIN corpus_ |->
            IF num_links = 0 THEN Rat(1, N)
            ELSE IF key \in links
                 THEN RAdd(RDiv(RSub(One, d), Rat(N, 1)), RDiv(d, Rat(N, 1)))
                 ELSE RDiv(RSub(One, d), Rat(N, 1))]

transition_model_damped_dangling(corpus_, page_, d) ==
    LET links == corpus_[page_]
        N == Cardinality(DOMAIN corpus_)
        num_links == Cardinality(links)
    IN  [key \in DOMAIN corpus_ |->
            IF key \in links
            THEN RAdd(RDiv(RSub(One, d), Rat(N, 1)), RDiv(d, Rat(num_links, 1)))
            ELSE IF num_links = 0 THEN RDiv(d, Rat(N, 1))
            ELSE RDiv(RSub(One, d), Rat(N, 1))]

transition_model(corpus_, page_, d) ==
    LET links == corpus_[page_]
        N == Cardinality(DOMAIN corpus_)
        num_links == Cardinality(links)
    IN  [key \in DOMAIN corpus_ |->
            IF num_links = 0 THEN Rat(1, N)
            ELSE IF key \in links
                 THEN RAdd(RDiv(RSub(One, d), Rat(N, 1)), RDiv(d, Rat(num_links, 1)))
                 ELSE RDiv(RSub(One, d), Rat(N, 1))]

\* a direct call transition_model(corpus, page, damping_factor)
TransitionModelCall ==
    /\ call = "transition_model"
    /\ pc = "entry"
    /\ result' = transition_model(corpus, page, damping_factor)
    /\ pc' = "returned"
    /\ UNCHANGED <<call, corpus, damping_factor, page, n, error,
                   visit_counts, random_page, i,
                   page_ranks, new_page_ranks, difference, todo, rounds>>

(* ---------------------------- sample_pagerank -------------------------- *)

\* visit_counts = {page: 0 for page in corpus}
SampleInit ==
    /\ call = "sample_pagerank"
    /\ pc = "entry"
    /\ visit_counts' = [p \in Keys |-> 0]
    /\ pc' = "choose_start"
    /\ UNCHANGED <<call, corpus, damping_factor, page, n, error, result,
                   random_page, i,
                   page_ranks, new_page_ranks, difference, todo, rounds>>

ChooseStartUncounted ==
    /\ call = "sample_pagerank"
    /\ pc = "choose_start"
    /\ IF Keys = {}
       THEN /\ error' = "IndexError"
            /\ pc' = "error"
            /\ UNCHANGED <<random_page, visit_counts, i>>
       ELSE /\ \E p \in Keys : random_page' = p
            /\ UNCHANGED visit_counts
            /\ i' = 1
            /\ pc' = "loop"
            /\ UNCHANGED error
    /\ UNCHANGED <<call, corpus, damping_factor, page, n, result,
                   page_ranks, new_page_ranks, difference, todo, rounds>>

\* random_page = random.choice(list(corpus.keys())); visit_counts[random_page] += 1
\* random.choice raises IndexError on an empty list
ChooseStart ==
    /\ call = "sample_pagerank"
    /\ pc = "choose_start"
    /\ IF Keys = {}
       THEN /\ error' = "IndexError"
            /\ pc' = "error"
            /\ UNCHANGED <<random_page, visit_counts, i>>
       ELSE /\ \E p \in Keys :
                /\ random_page' = p
                /\ visit_counts' = [visit_counts EXCEPT ![p] = @ + 1]
            /\ i' = 1
            /\ pc' = "loop"
            /\ UNCHANGED error
    /\ UNCHANGED <<call, corpus, damping_factor, page, n, result,
                   page_ranks, new_page_ranks, difference, todo, rounds>>

\* one pass of `for i in range(1, n)`: random.choices draws a page of
\* positive weight
SampleStep ==
    /\ call = "sample_pagerank"
    /\ pc = "loop"
    /\ i < n
    /\ LET probability_distribution ==
               transition_model(corpus, random_page, damping_factor)
       IN  \E p \in {q \in DOMAIN probability_distribution :
                         RGt(probability_distribution[q], Zero)} :
               /\ random_page' = p
               /\ visit_counts' = [visit_counts EXCEPT ![p] = @ + 1]
    /\ i' = i + 1
    /\ UNCHANGED <<call, corpus, damping_factor, page, n, pc, error, result,
                   page_ranks, new_page_ranks, difference, todo, rounds>>

\* page_ranks = {page: visit_counts[page] / n for page in corpus}; return
SampleFinish ==
    /\ call = "sample_pagerank"
    /\ pc = "loop"
    /\ ~(i < n)
    /\ IF n = 0
       THEN /\ error' = "ZeroDivisionError"
            /\ pc' = "error"
            /\ UNCHANGED result
       ELSE /\ result' = [p \in Keys |-> Rat(visit_counts[p], n)]
            /\ pc' = "returned"
            /\ UNCHANGED error
    /\ UNCHANGED <<call, corpus, damping_factor, page, n,
                   visit_counts, random_page, i,
                   page_ranks, new_page_ranks, difference, todo, rounds>>

(* --------------------------- iterate_pagerank -------------------------- *)

\* the convergence threshold 0.001
Threshold == <<1, 1000>>

\* ((1 - d) / N) + (d * sum_prob), sum_prob over the pages p linking to page_
new_rank(corpus_, ranks, page_, d) ==
    LET N == Cardinality(DOMAIN corpus_)
        linking == {p \in DOMAIN corpus_ : page_ \in corpus_[p]}
        terms == [p \in linking |->
                     RDiv(ranks[p], Rat(Cardinality(corpus_[p]), 1))]
        sum_prob == RSum(terms, linking)
    IN  RAdd(RDiv(RSub(One, d), Rat(N, 1)), RMul(d, sum_prob))

change_signed(new, old) == RSub(new, old)

\* abs(new_page_ranks[page] - page_ranks[page])
change(new, old) == RAbs(RSub(new, old))

converged_inverted(diff) == RGt(diff, Threshold)

\* if not difference > 0.001: break
converged(diff) == ~RGt(diff, Threshold)

normalize_skipped(ranks) == ranks

\* {page: rank / total_page_ranks for page, rank in page_ranks.items()}
normalize(ranks) ==
    LET total_page_ranks == RSum(ranks, DOMAIN ranks)
    IN  [p \in DOMAIN ranks |-> RDiv(ranks[p], total_page_ranks)]

\* N = len(corpus); page_ranks = {page: 1 / N for page in corpus}
IterInit ==
    /\ call = "iterate_pagerank"
    /\ pc = "entry"
    /\ page_ranks' = [p \in Keys |-> Rat(1, Cardinality(Keys))]
    /\ pc' = "round_start"
    /\ UNCHANGED <<call, corpus, damping_factor, page, n, error, result,
                   visit_counts, random_page, i,
                   new_page_ranks, difference, todo, rounds>>

\* top of the while loop: new_page_ranks = {}; difference = 0
BeginRound ==
    /\ call = "iterate_pagerank"
    /\ pc = "round_start"
    /\ rounds < MaxRounds
    /\ new_page_ranks' = <<>>
    /\ difference' = Zero
    /\ todo' = Keys
    /\ rounds' = rounds + 1
    /\ pc' = "round"
    /\ UNCHANGED <<call, corpus, damping_factor, page, n, error, result,
                   visit_counts, random_page, i, page_ranks>>

ComputePageInPlace ==
    /\ call = "iterate_pagerank"
    /\ pc = "round"
    /\ \E p \in todo :
        LET r == new_rank(corpus, page_ranks, p, damping_factor)
        IN  /\ new_page_ranks' = (p :> r) @@ new_page_ranks
            /\ page_ranks' = [page_ranks EXCEPT ![p] = r]
            /\ difference' = RAdd(difference, change(r, page_ranks[p]))
            /\ todo' = todo \ {p}
    /\ UNCHANGED <<call, corpus, damping_factor, page, n, pc, error, result,
                   visit_counts, random_page, i, rounds>>

\* one pass of `for page in corpus` (any dictionary order)
ComputePage ==
    /\ call = "iterate_pagerank"
    /\ pc = "round"
    /\ \E p \in todo :
        LET r == new_rank(corpus, page_ranks, p, damping_factor)
        IN  /\ new_page_ranks' = (p :> r) @@ new_page_ranks
            /\ difference' = RAdd(difference, change(r, page_ranks[p]))
            /\ todo' = todo \ {p}
    /\ UNCHANGED <<call, corpus, damping_factor, page, n, pc, error, result,
                   visit_counts, random_page, i, page_ranks, rounds>>

\* end of the round: break, or page_ranks = new_page_ranks and loop
RoundEnd ==
    /\ call = "iterate_pagerank"
    /\ pc = "round"
    /\ todo = {}
    /\ IF converged(difference)
       THEN /\ pc' = "normalize"
            /\ UNCHANGED page_ranks
       ELSE /\ page_ranks' = new_page_ranks
            /\ pc' = "round_start"
    /\ UNCHANGED <<call, corpus, damping_factor, page, n, error, result,
                   visit_counts, random_page, i,
                   new_page_ranks, difference, todo, rounds>>

\* total_page_ranks = sum(page_ranks.values()); divide every rank; return
Normalize ==
    /\ call = "iterate_pagerank"
    /\ pc = "normalize"
    /\ IF Keys # {} /\ RSum(page_ranks, Keys) = Zero
       THEN /\ error' = "ZeroDivisionError"
            /\ pc' = "error"
            /\ UNCHANGED <<page_ranks, result>>
       ELSE /\ page_ranks' = normalize(page_ranks)
            /\ result' = page_ranks'
            /\ pc' = "returned"
            /\ UNCHANGED error
    /\ UNCHANGED <<call, corpus, damping_factor, page, n,
                   visit_counts, random_page, i,
                   new_page_ranks, difference, todo, rounds>>

(* --------------------------- specification ----------------------------- *)

Init ==
    /\ call \in {"transition_model", "sample_pagerank", "iterate_pagerank"}
    /\ corpus \in Corpora
    /\ damping_factor \in
           IF call = "iterate_pagerank" THEN IterDampingFactors ELSE DampingFactors
    /\ IF call = "transition_model" THEN page \in DOMAIN corpus ELSE page = ""
    /\ IF call = "sample_pagerank" THEN n \in SampleBudgets ELSE n = 0
    /\ pc = "entry"
    /\ error = "none"
    /\ result = <<>>
    /\ visit_counts = <<>>
    /\ random_page = ""
    /\ i = 0
    /\ page_ranks = <<>>
    /\ new_page_ranks = <<>>
    /\ difference = Zero
    /\ todo = {}
    /\ rounds = 0

Next ==
    \/ TransitionModelCall
    \/ SampleInit
    \/ ChooseStart
    \/ SampleStep
    \/ SampleFinish
    \/ IterInit
    \/ BeginRound
    \/ ComputePage
    \/ RoundEnd
    \/ Normalize

Spec == Init /\ [][Next]_vars

\* the calls of iterate_pagerank alone
InitIterate == Init /\ call = "iterate_pagerank"

NextIterate ==
    \/ IterInit
    \/ BeginRound
    \/ ComputePage
    \/ RoundEnd
    \/ Normalize

\* iterate_pagerank is a single-threaded loop that always takes its next step
LiveSpec == InitIterate /\ [][NextIterate]_vars /\ WF_vars(NextIterate)

(* ------------------------------ properties ----------------------------- *)

InUnit(x) == RLe(Zero, x) /\ RLe(x, One)

\* C1: on a non-empty corpus whose links are keys other than the page
\* itself, and a damping factor strictly between 0 and 1, the distribution
\* transition_model returns has exactly the corpus pages as keys and its
\* values sum to exactly 1.
C1_DistributionSumsToOne ==
    (call = "transition_model" /\ pc = "returned")
        => /\ DOMAIN result = Keys
           /\ RSum(result, Keys) = One

\* a returned distribution for a page that links to some pages but not all
C1_Witness ==
    /\ call = "transition_model"
    /\ pc = "returned"
    /\ Cardinality(Keys) = 3
    /\ Cardinality(corpus[page]) = 1
    /\ damping_factor = <<17, 20>>

\* the reference distribution, computed directly on numerators and
\* denominators: 1/N from a dangling page, otherwise (1-d)/N plus d/k for
\* the linked pages
Reference(q) ==
    LET N == Cardinality(Keys)
        k == Cardinality(corpus[page])
        dn == damping_factor[1]
        dd == damping_factor[2]
    IN  IF k = 0 THEN Rat(1, N)
        ELSE IF q \in corpus[page]
             THEN Rat((dd - dn) * k + dn * N, dd * N * k)
             ELSE Rat(dd - dn, dd * N)

\* C2: transition_model equals the reference distribution: 1/N for every
\* page when the page has no links, whatever the damping; otherwise
\* (1-d)/N + d/k for linked pages and exactly (1-d)/N for the others.
C2_MatchesReference ==
    (call = "transition_model" /\ pc = "returned")
        => \A q \in Keys : result[q] = Reference(q)

\* a returned distribution for a dangling page of a corpus with other pages
C2_Witness ==
    /\ call = "transition_model"
    /\ pc = "returned"
    /\ Cardinality(Keys) >= 2
    /\ corpus[page] = {}
    /\ \E q \in Keys : corpus[q] # {}

\* C3: for a non-empty corpus and n >= 1, whatever pages the draws pick,
\* the visit counters sum to the number of samples taken so far, to exactly
\* n when the loop ends, and the returned ranks lie in [0, 1] and sum to 1.
C3_CountsPartitionSamples ==
    (call = "sample_pagerank" /\ n >= 1 /\ Keys # {})
        => /\ pc = "loop" => i <= n /\ ISum(visit_counts, Keys) = i
           /\ pc = "returned"
                 => /\ ISum(visit_counts, Keys) = n
                    /\ RSum(result, Keys) = One
                    /\ \A p \in Keys : InUnit(result[p])

\* a returned rank table after a walk that visited at least two pages
C3_Witness ==
    /\ call = "sample_pagerank"
    /\ pc = "returned"
    /\ n >= 3
    /\ Cardinality({p \in Keys : visit_counts[p] > 0}) >= 2

\* C4: on a non-empty corpus, dangling pages or not, iterate_pagerank never
\* divides by zero, and the table it returns has one entry per page, each
\* in [0, 1], summing to 1.
C4_IterateRanksNormalised ==
    (call = "iterate_pagerank" /\ Keys # {})
        => /\ error = "none"
           /\ pc = "returned"
                 => /\ DOMAIN result = Keys
                    /\ \A p \in Keys : InUnit(result[p])
                    /\ RSum(result, Keys) = One

\* a returned table for a corpus with a dangling page and a linked page
C4_Witness ==
    /\ call = "iterate_pagerank"
    /\ pc = "returned"
    /\ \E p \in Keys : corpus[p] = {}
    /\ \E p \in Keys : corpus[p] # {}

\* a returned table for a corpus in which every page is dangling
C4_WitnessAllDangling ==
    /\ call = "iterate_pagerank"
    /\ pc = "returned"
    /\ Cardinality(Keys) >= 2
    /\ \A p \in Keys : corpus[p] = {}

\* iterate_pagerank was called on a non-empty corpus
IterateCalled == call = "iterate_pagerank" /\ Keys # {} /\ pc = "entry"

\* the round loop was left through its break
LoopExited == pc = "normalize" /\ RLe(difference, Threshold)

\* C5: iterate_pagerank terminates: on a non-empty corpus the round loop
\* eventually ends a round with the change metric <= 0.001 and exits.
C5_IterateTerminates == IterateCalled ~> LoopExited

\* the loop exited after several rounds
C5_Witness ==
    /\ call = "iterate_pagerank"
    /\ pc = "normalize"
    /\ rounds >= 8
    /\ RLe(difference, Threshold)

\* C6: when the loop is left, one more round of the update applied to the
\* table that is about to be normalised changes no rank by more than 0.001.
C6_ConvergenceLaw ==
    (call = "iterate_pagerank" /\ pc = "normalize")
        => \A p \in Keys :
               RLe(RAbs(RSub(new_rank(corpus, page_ranks, p, damping_factor),
                             page_ranks[p])),
                   Threshold)

\* the loop exited with a table that one more round still changes
C6_Witness ==
    /\ call = "iterate_pagerank"
    /\ pc = "normalize"
    /\ rounds >= 2
    /\ \E p \in Keys :
           new_rank(corpus, page_ranks, p, damping_factor) # page_ranks[p]

\* C8: with an empty corpus neither estimator returns a rank table and
\* neither reaches a division by zero.
C8_EmptyCorpusFailsFast ==
    (call \in {"sample_pagerank", "iterate_pagerank"} /\ Keys = {})
        => /\ pc # "returned"
           /\ error # "ZeroDivisionError"

\* C9: with a budget n < 1 on a non-empty corpus, sample_pagerank counts no
\* start page, returns no rank table and produces no value outside [0, 1].
C9_BadBudgetRejected ==
    (call = "sample_pagerank" /\ n < 1 /\ Keys # {})
        => /\ \A p \in DOMAIN visit_counts : visit_counts[p] = 0
           /\ pc # "returned"
           /\ pc \notin {"loop"}

\* C10: while a round runs, the previous-round table and the corpus do not
\* change, every rank computed so far is the update applied to the
\* previous-round table, and the new table replaces the old one only when
\* every page of the round has been computed.
C10_JacobiUpdate ==
    [][(call = "iterate_pagerank" /\ pc = "round")
          => /\ corpus' = corpus
             /\ pc' = "round" => page_ranks' = page_ranks
             /\ page_ranks' # page_ranks
                   => /\ todo = {}
                      /\ DOMAIN new_page_ranks = Keys
                      /\ page_ranks' = new_page_ranks
             /\ \A p \in DOMAIN new_page_ranks' :
                    new_page_ranks'[p] =
                        new_rank(corpus, page_ranks, p, damping_factor)]_vars

\* mid-round, after a first round, a page already has a new rank that
\* differs from its previous-round rank while other pages are still to do
C10_Witness ==
    /\ call = "iterate_pagerank"
    /\ pc = "round"
    /\ rounds >= 2
    /\ todo # {}
    /\ \E p \in DOMAIN new_page_ranks : new_page_ranks[p] # page_ranks[p]

====
